---- MODULE Spec2Model ----
(***************************************************************************)
(* Model of src/http_server.c: a sequential static-file HTTP server.       *)
(* C strings are sequences of one-character strings; file contents are     *)
(* sequences of bytes.  The accept loop of main() is split at its system   *)
(* calls (accept, read, stat, fopen, fread, close) so that the environment *)
(* (clients, other processes changing the document root) can interleave.   *)
(***************************************************************************)
EXTENDS Integers, Sequences, FiniteSets, TLC

\* ---------------------------------------------------------------- bounds
MaxFileLen == 1
DirSize == 1
MaxAcceptFail == 1

\* ------------------------------------------------------ program constants
BUFFER_SIZE == 8192
METHOD_SIZE == 16
PATH_SIZE == 256
PROTOCOL_SIZE == 16
FILEPATH_SIZE == 512
\* The descriptor accept() returns: the lowest free one, the same for every
\* connection since each is closed before the next accept.
CLIENT_FD == 4

\* ------------------------------------------------------------- literals
GET == <<"G", "E", "T">>
POST == <<"P", "O", "S", "T">>
SLASH == <<"/">>
DOT == <<".">>
INDEX_HTML == <<"/", "i", "n", "d", "e", "x", ".", "h", "t", "m", "l">>
HTTP11 == <<"H", "T", "T", "P", "/", "1", ".", "1">>
NOT_FOUND_BODY ==
  <<"<", "h", "t", "m", "l", ">", "<", "b", "o", "d", "y", ">", "<", "h", "1", ">", "4", "0", "4", " ", "N", "o", "t", " ", "F", "o", "u", "n", "d", "<", "/", "h", "1", ">", "<", "/", "b", "o", "d", "y", ">", "<", "/", "h", "t", "m", "l", ">">>
ERROR_BODY ==
  <<"<", "h", "t", "m", "l", ">", "<", "b", "o", "d", "y", ">", "<", "h", "1", ">", "5", "0", "0", " ", "I", "n", "t", "e", "r", "n", "a", "l", " ", "S", "e", "r", "v", "e", "r", " ", "E", "r", "r", "o", "r", "<", "/", "h", "1", ">", "<", "/", "b", "o", "d", "y", ">", "<", "/", "h", "t", "m", "l", ">">>
NOT_IMPLEMENTED_BODY ==
  <<"<", "h", "t", "m", "l", ">", "<", "b", "o", "d", "y", ">", "<", "h", "1", ">", "5", "0", "1", " ", "N", "o", "t", " ", "I", "m", "p", "l", "e", "m", "e", "n", "t", "e", "d", "<", "/", "h", "1", ">", "<", "/", "b", "o", "d", "y", ">", "<", "/", "h", "t", "m", "l", ">">>

Min(a, b) == IF a < b THEN a ELSE b

Bytes == {0, 255}

Pad(n) == [i \in 1..n |-> "a"]

\* ----------------------------------------------------- get_content_type
\* strrchr: index of the last occurrence of c in s, 0 when absent.
strrchr(s, c) ==
  IF \E i \in 1..Len(s) : s[i] = c
  THEN CHOOSE i \in 1..Len(s) : s[i] = c /\ \A j \in (i+1)..Len(s) : s[j] # c
  ELSE 0

\* Mutant: the extension is taken from the first '.' (strchr for strrchr).
get_content_type_first_dot(fp) ==
  LET d == IF \E i \in 1..Len(fp) : fp[i] = "."
           THEN CHOOSE i \in 1..Len(fp) : fp[i] = "." /\ \A j \in 1..(i - 1) : fp[j] # "."
           ELSE 0
      dot == SubSeq(fp, d, Len(fp))
  IN IF d = 0 THEN "text/plain"
     ELSE IF dot = <<".", "h", "t", "m", "l">> THEN "text/html"
     ELSE IF dot = <<".", "c", "s", "s">> THEN "text/css"
     ELSE IF dot = <<".", "j", "s">> THEN "application/javascript"
     ELSE IF dot = <<".", "j", "s", "o", "n">> THEN "application/json"
     ELSE IF dot = <<".", "p", "n", "g">> THEN "image/png"
     ELSE IF dot = <<".", "j", "p", "g">> \/ dot = <<".", "j", "p", "e", "g">> THEN "image/jpeg"
     ELSE IF dot = <<".", "g", "i", "f">> THEN "image/gif"
     ELSE IF dot = <<".", "s", "v", "g">> THEN "image/svg+xml"
     ELSE "text/plain"

get_content_type(fp) ==
  LET d == strrchr(fp, ".")
      dot == SubSeq(fp, d, Len(fp))
  IN IF d = 0 THEN "text/plain"
     ELSE IF dot = <<".", "h", "t", "m", "l">> THEN "text/html"
     ELSE IF dot = <<".", "c", "s", "s">> THEN "text/css"
     ELSE IF dot = <<".", "j", "s">> THEN "application/javascript"
     ELSE IF dot = <<".", "j", "s", "o", "n">> THEN "application/json"
     ELSE IF dot = <<".", "p", "n", "g">> THEN "image/png"
     ELSE IF dot = <<".", "j", "p", "g">> \/ dot = <<".", "j", "p", "e", "g">> THEN "image/jpeg"
     ELSE IF dot = <<".", "g", "i", "f">> THEN "image/gif"
     ELSE IF dot = <<".", "s", "v", "g">> THEN "image/svg+xml"
     ELSE "text/plain"

\* -------------------------------------------------------- send_response
\* The bytes handed to write(): one header block, then the first
\* body_length bytes of body when body_length > 0.
\* Mutant: Content-Length counts a terminating NUL (sizeof for strlen).
send_response_sizeof(out, status_code, status_text, content_type, body, body_length) ==
  LET header == [kind |-> "header", status_code |-> status_code,
                 status_text |-> status_text, content_type |-> content_type,
                 content_length |-> body_length + 1]
  IN IF body_length > 0
     THEN out \o << header, [kind |-> "body", bytes |-> SubSeq(body, 1, body_length)] >>
     ELSE out \o << header >>

send_response(out, status_code, status_text, content_type, body, body_length) ==
  LET header == [kind |-> "header", status_code |-> status_code,
                 status_text |-> status_text, content_type |-> content_type,
                 content_length |-> body_length]
  IN IF body_length > 0
     THEN out \o << header, [kind |-> "body", bytes |-> SubSeq(body, 1, body_length)] >>
     ELSE out \o << header >>

\* --------------------------------------------------------------- sscanf
IsSpace(c) == c \in {" ", "\t", "\n", "\r", "\f"}

SkipSpace(s, i) ==
  CHOOSE j \in i..(Len(s) + 1) :
    /\ (j = Len(s) + 1 \/ ~IsSpace(s[j]))
    /\ \A k \in i..(j - 1) : IsSpace(s[k])

ScanEnd(s, i) ==
  CHOOSE j \in i..(Len(s) + 1) :
    /\ (j = Len(s) + 1 \/ IsSpace(s[j]))
    /\ \A k \in i..(j - 1) : ~IsSpace(s[k])

\* One %s conversion starting at index i.
ScanToken(s, i) ==
  LET b == SkipSpace(s, i)
      e == ScanEnd(s, b)
  IN [found |-> b <= Len(s), text |-> SubSeq(s, b, e - 1), next |-> e]

\* sscanf(request, "%s %s %s", ...): the tokens converted, at most three.
sscanf(request) ==
  LET t1 == ScanToken(request, 1)
      t2 == ScanToken(request, t1.next)
      t3 == ScanToken(request, t2.next)
  IN IF ~t1.found THEN << >>
     ELSE IF ~t2.found THEN << t1.text >>
     ELSE IF ~t3.found THEN << t1.text, t2.text >>
     ELSE << t1.text, t2.text, t3.text >>

\* ------------------------------------------------------------ environment
\* Names (below the document root) the single document of a run may have.
DocTargets ==
  {<<"/", "i", "n", "d", "e", "x", ".", "h", "t", "m", "l">>,
   <<"/", "s", ".", "c", "s", "s">>,
   <<"/", "a", ".", "j", "s">>,
   <<"/", "d", ".", "j", "s", "o", "n">>,
   <<"/", "i", ".", "p", "n", "g">>,
   <<"/", "p", ".", "j", "p", "g">>,
   <<"/", "p", ".", "j", "p", "e", "g">>,
   <<"/", "g", ".", "g", "i", "f">>,
   <<"/", "v", ".", "s", "v", "g">>,
   <<"/", "f", ".", "x", "y", "z">>,
   <<"/", "n", "o", "e", "x", "t">>,
   <<"/", "a", ".", "H", "T", "M", "L">>,
   <<"/", "d", ".", "j", "s", "/", "f">>,
   <<"/", "x", ".", "h", "t", "m", "l", ".", "b", "a", "k">>}

MISSING == <<"/", "m", "i", "s", "s", "i", "n", "g", ".", "h", "t", "m", "l">>
SP == <<" ">>
CRLF == <<"\r", "\n">>

\* Directories that always exist under the document root.
DirPaths == {DOT, DOT \o SLASH \o DOT}

FileContents == UNION {[1..n -> Bytes] : n \in 0..MaxFileLen}

Req(m, t, v) == m \o SP \o t \o SP \o v \o CRLF

\* Request targets a client sends when the document is named dn.
Targets(dn) ==
  {SLASH, INDEX_HTML, Tail(dn), MISSING, SLASH \o DOT,
   SLASH \o Pad(PATH_SIZE - 2), SLASH \o Pad(PATH_SIZE - 1),
   SLASH \o Pad(FILEPATH_SIZE - 2)}

\* Byte streams a client sends on one connection.
Requests(dn) ==
  {Req(GET, t, HTTP11) : t \in Targets(dn)}
  \cup {Req(m, t, HTTP11) : m \in {POST, <<"g", "e", "t">>, Pad(METHOD_SIZE - 1), Pad(METHOD_SIZE)},
                            t \in {SLASH, Tail(dn)}}
  \cup {Req(GET, SLASH, v) : v \in {Pad(PROTOCOL_SIZE - 1), Pad(PROTOCOL_SIZE)}}
  \cup {Req(POST, SLASH \o Pad(PATH_SIZE - 1), HTTP11)}
  \cup {GET, GET \o SP \o SLASH, CRLF, SP \o Req(GET, SLASH, HTTP11)}

\* Values an uninitialised or overwritten char array may be found to hold.
Garbage == {<< >>, GET, SLASH}

VARIABLES pc, client_socket, acceptFailures, buffer,
          method, path, protocol, filepath, st_size, file, file_content,
          smashed, conn, docName, doc

vars == << pc, client_socket, acceptFailures, buffer,
           method, path, protocol, filepath, st_size, file, file_content,
           smashed, conn, docName, doc >>

locals == << method, path, protocol, filepath, st_size >>

\* One accepted connection: what main and the handlers did on it.  statBytes
\* records what the file held at the stat call.
NoConn == [fd |-> -1, reads |-> 0, nresp |-> 0, out |-> << >>,
           closed |-> FALSE, fsOps |-> {}, statBytes |-> << >>]

NoFile == [open |-> FALSE, isDir |-> FALSE, linked |-> FALSE, bytes |-> << >>]

Init ==
  /\ pc = "accept"
  /\ client_socket = -1
  /\ acceptFailures = 0
  /\ buffer = << >>
  /\ method = << >> /\ path = << >> /\ protocol = << >> /\ filepath = << >>
  /\ st_size = 0
  /\ file = NoFile
  /\ file_content = FALSE
  /\ smashed = FALSE
  /\ conn = NoConn
  /\ docName \in {DOT \o t : t \in DocTargets}
  /\ doc \in [exists : {TRUE}, bytes : FileContents] \cup {[exists |-> FALSE, bytes |-> << >>]}

\* ---------------------------------------------------------- file system
\* stat(): the entry a path names, if any.
stat(fp) ==
  IF fp = docName /\ doc.exists
  THEN [ok |-> TRUE, isDir |-> FALSE, st_size |-> Len(doc.bytes)]
  ELSE IF fp \in DirPaths
  THEN [ok |-> TRUE, isDir |-> TRUE, st_size |-> DirSize]
  ELSE [ok |-> FALSE, isDir |-> FALSE, st_size |-> 0]

\* Another process writes the document (creating it when absent).
FsWrite ==
  /\ \E b \in FileContents :
       /\ doc' = [exists |-> TRUE, bytes |-> b]
       /\ file' = IF file.open /\ file.linked /\ doc.exists
                  THEN [file EXCEPT !.bytes = b] ELSE file
  /\ UNCHANGED << pc, client_socket, acceptFailures, buffer,
                  method, path, protocol, filepath, st_size, file_content, smashed, conn, docName >>

\* Another process unlinks the document; an open handle keeps its inode.
FsRemove ==
  /\ doc.exists
  /\ doc' = [exists |-> FALSE, bytes |-> << >>]
  /\ file' = [file EXCEPT !.linked = FALSE]
  /\ UNCHANGED << pc, client_socket, acceptFailures, buffer,
                  method, path, protocol, filepath, st_size, file_content, smashed, conn, docName >>

\* ------------------------------------------------------- handle_request
FieldSize(k) == IF k = 2 THEN PATH_SIZE ELSE IF k = 1 THEN METHOD_SIZE ELSE PROTOCOL_SIZE

\* What line 169 leaves in method, path and protocol.  sscanf stores the
\* tokens in order.  A field no token was converted for keeps its
\* indeterminate contents.  A token that does not fit its array (with the
\* terminator) is written past the array's end: the frame's return address
\* may be destroyed, a field stored earlier may be found overwritten, and
\* the token's own tail may be overwritten by the token stored next.
ParseOutcomes(request) ==
  LET toks == sscanf(request)
      n == Len(toks)
      Overflows(k) == k <= n /\ Len(toks[k]) + 1 > FieldSize(k)
      overflow == \E k \in 1..3 : Overflows(k)
      Field(k) ==
        IF k > n THEN Garbage
        ELSE {toks[k]}
             \cup (IF \E j \in (k + 1)..3 : Overflows(j) THEN Garbage ELSE {})
             \cup (IF Overflows(k) /\ k < n
                   THEN {SubSeq(toks[k], 1, FieldSize(k)) \o toks[k + 1]} ELSE {})
  IN [method : Field(1), path : Field(2), protocol : Field(3),
      smashed : IF overflow THEN BOOLEAN ELSE {FALSE}]

\* Lines 182-190: the path handed to send_file.
\* Mutant: the "/" -> index.html substitution is lost.
ResolvePath_verbatim(p) == DOT \o p

ResolvePath(p) == IF p = SLASH THEN DOT \o INDEX_HTML ELSE DOT \o p

\* Where control goes when handle_request returns.
AfterReturn(sm) == IF sm THEN "crashed" ELSE "close"

\* ------------------------------------------------------------- main loop
\* accept() succeeds; line 263 clears the buffer before read() blocks.
AcceptOk ==
  /\ pc = "accept"
  /\ client_socket' = CLIENT_FD
  /\ conn' = [NoConn EXCEPT !.fd = CLIENT_FD]
  /\ buffer' = << >>
  /\ pc' = "read"
  /\ UNCHANGED << acceptFailures, locals, file_content, file, smashed, docName, doc >>

AcceptFail ==
  /\ pc = "accept"
  /\ acceptFailures < MaxAcceptFail
  /\ acceptFailures' = acceptFailures + 1
  /\ client_socket' = -1
  /\ pc' = "accept"
  /\ UNCHANGED << buffer, locals, file_content, file, smashed, conn, docName, doc >>

\* read() returns 0 (peer closed) or -1 (error): handle_request is skipped.
ReadNothing ==
  /\ pc = "read"
  /\ \E bytes_read \in {0, -1} :
       /\ conn' = [conn EXCEPT !.reads = @ + 1]
       /\ pc' = "close"
  /\ UNCHANGED << buffer, client_socket, acceptFailures, locals, file_content, file, smashed, docName, doc >>

\* read() returns data; handle_request runs up to its return (501) or up to
\* the stat() call of send_file.
ReadRequest ==
  /\ pc = "read"
  /\ \E data \in Requests(docName) :
       LET bytes_read == Min(Len(data), BUFFER_SIZE - 1)
           request == SubSeq(data, 1, bytes_read)
       IN /\ buffer' = request
          /\ \E o \in ParseOutcomes(request) :
               /\ method' = o.method
               /\ path' = o.path
               /\ protocol' = o.protocol
               /\ IF o.method # GET
                  THEN /\ conn' = [conn EXCEPT !.reads = @ + 1, !.nresp = @ + 1,
                                     !.out = send_response(@, 501, "Not Implemented", "text/html",
                                                           NOT_IMPLEMENTED_BODY, Len(NOT_IMPLEMENTED_BODY))]
                       /\ filepath' = filepath
                       /\ smashed' = o.smashed
                       /\ pc' = AfterReturn(o.smashed)
                  ELSE /\ conn' = [conn EXCEPT !.reads = @ + 1]
                       /\ filepath' = ResolvePath(o.path)
                       /\ smashed' \in IF Len(ResolvePath(o.path)) + 1 > FILEPATH_SIZE
                                      THEN {o.smashed, TRUE} ELSE {o.smashed}
                       /\ pc' = "stat"
  /\ UNCHANGED << client_socket, acceptFailures, st_size, file, file_content, docName, doc >>

\* Mutant: the 404 response takes its content type from the MIME resolver.
Stat_mime ==
  /\ pc = "stat"
  /\ LET s == stat(filepath)
     IN IF ~s.ok
        THEN /\ conn' = [conn EXCEPT !.fsOps = @ \cup {"stat"}, !.nresp = @ + 1,
                           !.out = send_response(@, 404, "Not Found", get_content_type(filepath),
                                                 NOT_FOUND_BODY, Len(NOT_FOUND_BODY))]
             /\ st_size' = st_size
             /\ pc' = AfterReturn(smashed)
        ELSE /\ conn' = [conn EXCEPT !.fsOps = @ \cup {"stat"},
                           !.statBytes = IF s.isDir THEN << >> ELSE doc.bytes]
             /\ st_size' = s.st_size
             /\ pc' = "fopen"
  /\ UNCHANGED << client_socket, acceptFailures, buffer, method, path,
                  protocol, filepath, file, file_content, smashed, docName, doc >>

\* send_file, lines 110-117.
Stat ==
  /\ pc = "stat"
  /\ LET s == stat(filepath)
     IN IF ~s.ok
        THEN /\ conn' = [conn EXCEPT !.fsOps = @ \cup {"stat"}, !.nresp = @ + 1,
                           !.out = send_response(@, 404, "Not Found", "text/html",
                                                 NOT_FOUND_BODY, Len(NOT_FOUND_BODY))]
             /\ st_size' = st_size
             /\ pc' = AfterReturn(smashed)
        ELSE /\ conn' = [conn EXCEPT !.fsOps = @ \cup {"stat"},
                           !.statBytes = IF s.isDir THEN << >> ELSE doc.bytes]
             /\ st_size' = s.st_size
             /\ pc' = "fopen"
  /\ UNCHANGED << client_socket, acceptFailures, buffer, method, path,
                  protocol, filepath, file, file_content, smashed, docName, doc >>

\* send_file, lines 120-127.
Fopen ==
  /\ pc = "fopen"
  /\ \E granted \in BOOLEAN :
       LET s == stat(filepath)
       IN IF s.ok /\ granted
          THEN /\ file' = [open |-> TRUE, isDir |-> s.isDir, linked |-> TRUE,
                           bytes |-> IF s.isDir THEN << >> ELSE doc.bytes]
               /\ conn' = [conn EXCEPT !.fsOps = @ \cup {"fopen"}]
               /\ pc' = "malloc"
          ELSE /\ file' = file
               /\ conn' = [conn EXCEPT !.fsOps = @ \cup {"fopen"}, !.nresp = @ + 1,
                             !.out = send_response(@, 500, "Internal Server Error", "text/html",
                                                   ERROR_BODY, Len(ERROR_BODY))]
               /\ pc' = AfterReturn(smashed)
  /\ UNCHANGED << client_socket, acceptFailures, buffer, locals, file_content, smashed, docName, doc >>

\* Mutant: the malloc failure path returns without fclose.
Malloc_leak ==
  /\ pc = "malloc"
  /\ \E allocated \in BOOLEAN :
       IF allocated
       THEN /\ file_content' = TRUE
            /\ file' = file
            /\ conn' = conn
            /\ pc' = "fread"
       ELSE /\ file_content' = FALSE
            /\ file' = file
            /\ conn' = [conn EXCEPT !.nresp = @ + 1,
                          !.out = send_response(@, 500, "Internal Server Error", "text/html",
                                                ERROR_BODY, Len(ERROR_BODY))]
            /\ pc' = AfterReturn(smashed)
  /\ UNCHANGED << client_socket, acceptFailures, buffer, locals, smashed, docName, doc >>

\* send_file, lines 130-137.
Malloc ==
  /\ pc = "malloc"
  /\ \E allocated \in BOOLEAN :
       IF allocated
       THEN /\ file_content' = TRUE
            /\ file' = file
            /\ conn' = conn
            /\ pc' = "fread"
       ELSE /\ file_content' = FALSE
            /\ file' = NoFile
            /\ conn' = [conn EXCEPT !.nresp = @ + 1,
                          !.out = send_response(@, 500, "Internal Server Error", "text/html",
                                                ERROR_BODY, Len(ERROR_BODY))]
            /\ pc' = AfterReturn(smashed)
  /\ UNCHANGED << client_socket, acceptFailures, buffer, locals, smashed, docName, doc >>

\* send_file, lines 140-151: fread, fclose, send_response, free.
\* fread stores the bytes the file holds now, at most st_size of them; the
\* rest of the malloc'ed buffer keeps its indeterminate contents.
Fread ==
  /\ pc = "fread"
  /\ LET got == Min(st_size, Len(file.bytes))
     IN \E rest \in [1..(st_size - got) -> Bytes] :
          LET content == SubSeq(file.bytes, 1, got) \o rest
          IN conn' = [conn EXCEPT !.fsOps = @ \cup {"fread"}, !.nresp = @ + 1,
                        !.out = send_response(@, 200, "OK", get_content_type(filepath),
                                              content, st_size)]
  /\ file' = NoFile
  /\ file_content' = FALSE
  /\ pc' = AfterReturn(smashed)
  /\ UNCHANGED << client_socket, acceptFailures, buffer, locals, smashed, docName, doc >>

\* main, line 275; the locals of handle_request are gone by now.
Close ==
  /\ pc = "close"
  /\ conn' = [conn EXCEPT !.closed = TRUE]
  /\ method' = << >> /\ path' = << >> /\ protocol' = << >> /\ filepath' = << >>
  /\ st_size' = 0
  /\ pc' = "accept"
  /\ UNCHANGED << client_socket, acceptFailures, buffer, file, file_content, smashed, docName, doc >>

Next ==
  \/ AcceptOk
  \/ AcceptFail
  \/ ReadNothing
  \/ ReadRequest
  \/ Stat
  \/ Fopen
  \/ Malloc
  \/ Fread
  \/ Close
  \/ FsWrite
  \/ FsRemove

Spec == Init /\ [][Next]_vars

\* ================================================================ claims
\* The bytes one response puts on the wire, written out from section 4.2.
Response(code, reason, type, body) ==
  IF Len(body) > 0
  THEN << [kind |-> "header", status_code |-> code, status_text |-> reason,
           content_type |-> type, content_length |-> Len(body)],
          [kind |-> "body", bytes |-> body] >>
  ELSE << [kind |-> "header", status_code |-> code, status_text |-> reason,
           content_type |-> type, content_length |-> 0] >>

\* handle_request has run on the connection's request and control has left it.
Returned == conn.reads = 1 /\ pc \in {"close", "crashed"}

\* The tokens of the request the connection sent.
Tokens == sscanf(buffer)

\* C1: every accepted connection, whatever its read returned, has had exactly
\* one read and exactly one send_response call when it is closed.
C1_ExactlyOneResponse ==
  conn.closed => (conn.reads = 1 /\ conn.nresp = 1)

\* C2: in the bytes written to a connection every header block is followed by
\* exactly Content-Length body bytes: by one body of that length when it is
\* positive, by no body when it is 0; and no body comes without its header.
C2_ContentLengthMatchesBody ==
  \A i \in 1..Len(conn.out) :
    IF conn.out[i].kind = "header"
    THEN IF i < Len(conn.out) /\ conn.out[i + 1].kind = "body"
         THEN Len(conn.out[i + 1].bytes) = conn.out[i].content_length
         ELSE conn.out[i].content_length = 0
    ELSE /\ Len(conn.out[i].bytes) > 0
         /\ i > 1
         /\ conn.out[i - 1].kind = "header"

\* A 200 response whose body is a file byte of value 0 has been written.
C2_Witness ==
  /\ Len(conn.out) = 2
  /\ conn.out[1].status_code = 200
  /\ conn.out[1].content_length = 1
  /\ conn.out[2].bytes = << 0 >>

\* C3: a request whose method token is not exactly GET is answered 501 with
\* the literal body, and handle_request returns without resolving a path or
\* calling stat, fopen or fread.
C3_NonGetIs501 ==
  (conn.reads = 1 /\ Len(Tokens) >= 1 /\ Tokens[1] # GET)
    => /\ conn.out = Response(501, "Not Implemented", "text/html", NOT_IMPLEMENTED_BODY)
       /\ conn.fsOps = {}
       /\ pc \in {"close", "crashed", "accept"}

\* The 404 response of section 4.3.
NotFoundResponse == Response(404, "Not Found", "text/html", NOT_FOUND_BODY)

\* C4: when the resolved path names no entry at the stat call, send_file writes
\* the 404 response with text/html and the literal body, whatever the path's
\* extension, and returns without opening the file; a connection answered 404
\* never had fopen or fread called.
C4_MissingIs404 ==
  /\ [][(pc = "stat" /\ pc' # "stat" /\ ~stat(filepath).ok)
          => /\ conn'.out = NotFoundResponse
             /\ conn'.fsOps = {"stat"}
             /\ ~file'.open
             /\ pc' \in {"close", "crashed"}]_vars
  /\ []((Len(conn.out) > 0 /\ conn.out[1].status_code = 404)
          => (conn.out = NotFoundResponse /\ conn.fsOps = {"stat"} /\ ~file.open))

\* A missing i.png has been answered 404 (its extension maps to image/png).
C4_Witness ==
  /\ pc = "close"
  /\ conn.out = NotFoundResponse
  /\ filepath = docName
  /\ get_content_type(filepath) = "image/png"

\* C5: a 200 response for the document carries exactly the bytes written to
\* the file: the bytes it held at the stat call, or the bytes it holds when it
\* is read, if it was rewritten in between.
C5_RoundTrip ==
  [][(pc = "fread" /\ pc' # "fread" /\ ~file.isDir)
       => \E written \in {conn.statBytes, file.bytes} :
            conn'.out = Response(200, "OK", conn'.out[1].content_type, written)]_vars

\* The table of section 4.1.
MimeTable ==
  {<< <<".", "h", "t", "m", "l">>, "text/html" >>,
   << <<".", "c", "s", "s">>, "text/css" >>,
   << <<".", "j", "s">>, "application/javascript" >>,
   << <<".", "j", "s", "o", "n">>, "application/json" >>,
   << <<".", "p", "n", "g">>, "image/png" >>,
   << <<".", "j", "p", "g">>, "image/jpeg" >>,
   << <<".", "j", "p", "e", "g">>, "image/jpeg" >>,
   << <<".", "g", "i", "f">>, "image/gif" >>,
   << <<".", "s", "v", "g">>, "image/svg+xml" >>}

\* The suffixes of p that start at its last '.': one, or none.
LastDotSuffix(p) ==
  {SubSeq(p, i, Len(p)) : i \in {k \in 1..Len(p) : p[k] = "." /\ \A j \in (k + 1)..Len(p) : p[j] # "."}}

\* The content type section 4.1 documents for p.
Documented(p) ==
  LET hits == {row \in MimeTable : row[1] \in LastDotSuffix(p)}
  IN IF hits = {} THEN "text/plain" ELSE (CHOOSE row \in hits : TRUE)[2]

\* C6: get_content_type returns, for every string the server holds, the
\* documented type for the suffix at its last '.', text/plain when there is no
\* '.' or the suffix is not in the table, and never the empty string; every 200
\* response carries the documented type of the path it was served from.
C6_ContentType ==
  /\ \A p \in {filepath, path, buffer, docName, Tail(docName)} :
       get_content_type(p) = Documented(p) /\ get_content_type(p) # ""
  /\ (pc \in {"close", "crashed"} /\ Len(conn.out) > 0 /\ conn.out[1].status_code = 200)
       => conn.out[1].content_type = Documented(filepath)

\* p.jpeg has been served 200 as image/jpeg.
C6_Witness ==
  /\ pc = "close"
  /\ Len(conn.out) > 0
  /\ conn.out[1].status_code = 200
  /\ conn.out[1].content_type = "image/jpeg"
  /\ filepath = DOT \o <<"/", "p", ".", "j", "p", "e", "g">>

\* send_file is running on, or has returned from, a resolved path.
Resolved == pc \in {"stat", "fopen", "malloc", "fread"} \/ (Returned /\ "stat" \in conn.fsOps)

C8_AcceptFailureHarmless ==
  /\ (client_socket = -1 => pc = "accept")
  /\ (acceptFailures > 0 => pc # "crashed")
  /\ ((acceptFailures > 0 /\ pc = "close") => (conn.reads = 1 /\ conn.nresp = 1))

\* The 500 response of section 4.3.
ErrorResponse == Response(500, "Internal Server Error", "text/html", ERROR_BODY)

\* C9: when stat succeeded and fopen or malloc failed, the response is the 500
\* response with text/html and the literal body; outside the steps between
\* fopen and fclose no file handle is open, and outside the step between
\* malloc and free no file buffer is allocated.
C9_ReadErrorIs500 ==
  /\ (Returned /\ "fopen" \in conn.fsOps /\ "fread" \notin conn.fsOps) => conn.out = ErrorResponse
  /\ (Len(conn.out) > 0 /\ conn.out[1].status_code = 500)
       => (conn.out = ErrorResponse /\ conn.fsOps = {"stat", "fopen"})
  /\ file.open => pc \in {"malloc", "fread"}
  /\ file_content => pc = "fread"

\* fopen succeeded, malloc failed, and the 500 response has been written.
C9_Witness ==
  /\ pc = "close"
  /\ conn.out = ErrorResponse
  /\ stat(filepath).ok
  /\ ~file.open

\* C10: the tokens of every request handed to handle_request fit method, path
\* and protocol with their terminators, all three fields are assigned, and the
\* resolved path fits filepath.
C10_BufferSafety ==
  (conn.reads = 1 /\ buffer # << >>)
    => /\ Len(Tokens) = 3
       /\ \A k \in 1..Len(Tokens) : Len(Tokens[k]) + 1 <= FieldSize(k)
       /\ Len(filepath) + 1 <= FILEPATH_SIZE

====
